---- MODULE Spec2Model ----
(***************************************************************************)
(* Model of icecreamswaputils.VersionedDict (versioned_dict.py): a dict    *)
(* that records every mutation as an undoable diff, with commit, rollback, *)
(* revert, a bounded history (collections.deque with maxlen) and the       *)
(* to_obj / from_obj snapshot conversion.                                  *)
(*                                                                         *)
(* A Python dict is insertion-ordered.  The diffs (_changes and the        *)
(* entries of _history) are modelled as sequences of records               *)
(* [k |-> key, v |-> prior] with pairwise distinct keys, because the order *)
(* decides both the tuple that rollback / revert return and how far        *)
(* _undo_changes gets before a KeyError.  self.data is modelled as a       *)
(* function whose DOMAIN is the set of present keys.                       *)
(*                                                                         *)
(* The second half models the hash mirror of RedisConnector                *)
(* (redis_connector.py): the write path __setitem__ on a redis hash, which *)
(* writes and then publishes the changed field names, subscribe_hash, the  *)
(* worker _subscribe_hash_thread step by step, freeze_hash / unfreeze_hash *)
(* and the reads of __getitem__, for one hash key.                         *)
(***************************************************************************)
EXTENDS Integers, Sequences, FiniteSets, TLC

\* ------------------------------------------------------------------ bounds
\* cap on the length of an unbounded history (max_history = None)
MaxLen == 1

\* ------------------------------------------------------- values and keys
Keys == {"a", "b"}

\* hashable scalars; "__CREATED__" is an ordinary str a caller may store
HashableValues == {"1", "__CREATED__"}
\* a nested dict: not hashable, accepted by __setitem__
DictValues == {"{}"}
\* a list: not hashable, rejected by __setitem__
ListValues == {"[]"}

\* VersionedDict.KEY_CREATED = object(): equal to nothing but itself
KEY_CREATED == "<KEY_CREATED>"
\* the marker to_obj writes in place of KEY_CREATED
MARKER == "__CREATED__"

\* max_history = None (deque(maxlen=None))
NoLimit == -1
\* the values of max_history the stores are constructed with
MaxHistories == {NoLimit, 0, 1, 2}
\* the commit() counter stops counting here
ManyCommits == 3

\* ---------------------------------------------------- ordered dict (diff)
EmptyDict == << >>

Has(d, key) == \E i \in 1 .. Len(d) : d[i].k = key

Get(d, key) == d[CHOOSE i \in 1 .. Len(d) : d[i].k = key].v

\* d[key] = val: an existing key keeps its position, a new key goes last
Put(d, key, val) ==
    IF Has(d, key)
    THEN [i \in 1 .. Len(d) |-> IF d[i].k = key THEN [k |-> key, v |-> val] ELSE d[i]]
    ELSE Append(d, [k |-> key, v |-> val])

\* del d[key]
Remove(d, key) == SelectSeq(d, LAMBDA e : e.k # key)

\* tuple(d.keys())
KeysOf(d) == [i \in 1 .. Len(d) |-> d[i].k]

KeySet(d) == {d[i].k : i \in 1 .. Len(d)}

\* the mapping a dict stands for; Python's dict == compares exactly this
AsMap(d) == [key \in KeySet(d) |-> Get(d, key)]

RECURSIVE Update(_, _)
\* d |= e : every item of e is stored into d, in e's order
Update(d, e) ==
    IF e = << >> THEN d
    ELSE Update(Put(d, Head(e).k, Head(e).v), Tail(e))

\* ------------------------------------------------------------- self.data
EmptyData == [key \in {} |-> "1"]

DataSet(d, key, val) == [x \in (DOMAIN d) \cup {key} |-> IF x = key THEN val ELSE d[x]]

DataDel(d, key) == [x \in (DOMAIN d) \ {key} |-> d[x]]

\* ------------------------------------------------------- deque(maxlen=m)
Front(s) == SubSeq(s, 1, Len(s) - 1)

Last(s) == s[Len(s)]

\* deque.append gone wrong: a full deque discards its rightmost item
DequeAppendNewest(h, x, maxlen) ==
    IF maxlen = NoLimit THEN Append(h, x)
    ELSE IF Len(h) >= maxlen THEN Append(Front(h), x)
    ELSE Append(h, x)

\* deque.append: a full deque discards its leftmost item; maxlen 0 keeps nothing
DequeAppend(h, x, maxlen) ==
    IF maxlen = NoLimit THEN Append(h, x)
    ELSE IF maxlen = 0 THEN << >>
    ELSE IF Len(h) >= maxlen THEN Append(Tail(h), x)
    ELSE Append(h, x)

RECURSIVE DequeExtend(_, _, _)
\* deque.extend: append item by item
DequeExtend(h, xs, maxlen) ==
    IF xs = << >> THEN h
    ELSE DequeExtend(DequeAppend(h, Head(xs), maxlen), Tail(xs), maxlen)

\* ---------------------------------------------------------- _undo_changes
RECURSIVE UndoChanges(_, _)
\* walks the diff in order; KEY_CREATED deletes the key (KeyError when the key
\* is absent, which leaves the earlier items undone and the later ones not),
\* any other entry stores the prior value back
UndoChanges(d, ch) ==
    IF ch = << >> THEN [data |-> d, err |-> "none"]
    ELSE IF Head(ch).v = KEY_CREATED
         THEN IF Head(ch).k \in DOMAIN d
              THEN UndoChanges(DataDel(d, Head(ch).k), Tail(ch))
              ELSE [data |-> d, err |-> "KeyError"]
         ELSE UndoChanges(DataSet(d, Head(ch).k, Head(ch).v), Tail(ch))

\* ------------------------------------------------------ to_obj / from_obj
\* value if value is not KEY_CREATED else "__CREATED__"
Encode(v) == IF v = KEY_CREATED THEN MARKER ELSE v

\* value if value != "__CREATED__" else KEY_CREATED
Decode(v) == IF v # MARKER THEN v ELSE KEY_CREATED

EncodeDict(d) == [i \in 1 .. Len(d) |-> [k |-> d[i].k, v |-> Encode(d[i].v)]]

DecodeDict(d) == [i \in 1 .. Len(d) |-> [k |-> d[i].k, v |-> Decode(d[i].v)]]

ToObj(dat, hist, ch, maxlen) ==
    [data |-> dat,
     history |-> [i \in 1 .. Len(hist) |-> EncodeDict(hist[i])],
     changes |-> EncodeDict(ch),
     max_history |-> maxlen]

FromObj(obj) ==
    [data |-> obj.data,
     history |-> DequeExtend(<< >>, [i \in 1 .. Len(obj.history) |-> DecodeDict(obj.history[i])],
                             obj.max_history),
     changes |-> DecodeDict(obj.changes),
     max_history |-> obj.max_history]

\* ------------------------------------------------------------------ state
VARIABLES
    data,         \* self.data
    changes,      \* self._changes, the open diff
    history,      \* self._history
    max_history,  \* self._history.maxlen
    ret,          \* the last call: operation, outcome, returned keys
    restored,     \* the store from_obj(to_obj()) built, after a round trip
    txStart,      \* history variable: data when the open diff was last emptied
    prevStart,    \* history variable: right after commit(), txStart of the transaction it sealed
    base,         \* history variable: data as of the last commit() not rolled back
    bases,        \* history variable: per entry of history, base when it was committed
    rbRun,        \* history variable: successful rollbacks since the last commit()
    ncommit,      \* history variable: commit() calls so far, counted up to ManyCommits
    redis,        \* the remote hash: field -> serialized value
    pubsub,       \* the subscription to "hash_updates:" + key and its unread messages
    hash_frozen,  \* self.hash_frozen: has no entry for the key, or holds True / False
    hash_data,    \* self.hash_data: has no entry for the key, or holds the fields map
    sub,          \* the caller inside subscribe_hash
    w,            \* the worker thread _subscribe_hash_thread: position and locals
    wr,           \* the writer inside __setitem__
    obs,          \* the observer: number of invocations and the last one
    rd,           \* the reader: the last __getitem__ and its outcome
    gh,           \* history variables of the mirror
    lock,         \* self.lock of the VersionedDict: free, or the thread that holds it
    calls         \* per thread: the call it is in, its position and its locals

\* the variables of the versioned dict
dvars == <<data, changes, history, max_history, ret, restored,
           txStart, prevStart, base, bases, rbRun, ncommit>>

\* the variables of the hash mirror
mvars == <<redis, pubsub, hash_frozen, hash_data, sub, w, wr, obs, rd, gh>>

\* the variables of the threads that call the versioned dict
lvars == <<lock, calls>>

vars == <<data, changes, history, max_history, ret, restored,
          txStart, prevStart, base, bases, rbRun, ncommit,
          redis, pubsub, hash_frozen, hash_data, sub, w, wr, obs, rd, gh,
          lock, calls>>

\* what a call leaves in ret:
\*   op, err   the operation and the exception it raised ("none": it returned)
\*   keys      the tuple rollback / revert returned
\*   kind      the type of the value a __setitem__ was given
\*   noop      the key of a __setitem__ that wrote the value the key already held
\*             while the key had no entry in the open diff; a rollback / revert
\*             called right after such a write carries the key on
\*   imm       a rollback called right after a commit
Ret(op, err, keys, kind, noop, imm) ==
    [op |-> op, err |-> err, keys |-> keys, kind |-> kind, noop |-> noop, imm |-> imm]

NoRet == Ret("init", "none", << >>, "", "", FALSE)

\* the no-op write a rollback / revert directly follows
NoopBefore == IF ret.op = "set" THEN ret.noop ELSE ""

NotRestored == [valid |-> FALSE, data |-> EmptyData, history |-> << >>,
                changes |-> EmptyDict, max_history |-> NoLimit]

\* ---------------------------------------------------- hash mirror: state
\* the fields of the hash and the values the callers write
Fields == {"a", "b"}
AppValues == {1, 2}

\* json.dumps of a written value
Dumps(v) == ToString(v)

\* json.loads of a stored value
Loads(s) == CHOOSE v \in AppValues : ToString(v) = s

\* no field -> value entries
NoFields == << >>

\* what redis answers for a field the hash does not have
Nil == "nil"

\* the worker before thread.start(): updated_initial and frozen_updates are set
\* when it starts
WorkerOff ==
    [pc |-> "off", updated_initial |-> FALSE, frozen_updates |-> {}, block |-> FALSE,
     frozen |-> FALSE, changed |-> {}, fetched |-> NoFields]

WriterIdle == [pc |-> "idle", kind |-> "none", dels |-> {}, names |-> {}, n |-> 0]

NoObs == [called |-> FALSE, keys |-> {}, fields |-> NoFields]

NoRead == [op |-> "none", hkey |-> {}, err |-> "none", local |-> FALSE, remote |-> FALSE,
           value |-> NoFields, pre |-> NoFields, post |-> NoFields]

\* history variables of the mirror:
\*   batches      HMGET batches the worker has fetched
\*   calls        invocations of the observer
\*   pending      names delivered to the subscription and not fetched since
\*   early        names delivered before the worker started, for fields whose
\*                remote value the snapshot already taken does not have
\*   cold         the write in progress began while the hash was frozen
\*   frozenNames  names of the writes made and published within the frozen
\*                interval, not delivered to the observer yet
\*   aware        the worker has read the flag as True since it was last set
\*   before       the local fields map as it was when the batch being applied
\*                was fetched
\*   thawed       the hash was unfrozen since it was last frozen
\*   marks        per unread message: it was delivered after that unfreeze
\*   tookLate     the names of such messages the worker's round has taken
\*   flushed      the names the worker's round has flushed from frozen_updates
\*   initials     initial updates sent to the observer (counted up to 2)
\*   deltaFirst   a delta update was sent before any initial update
\*   coldStart    the hash was subscribed frozen and never unfrozen since
NoGhost ==
    [batches |-> 0, calls |-> 0, pending |-> {}, early |-> {}, cold |-> FALSE,
     frozenNames |-> {}, aware |-> FALSE, before |-> NoFields,
     thawed |-> FALSE, marks |-> << >>, tookLate |-> {}, flushed |-> {},
     initials |-> 0, deltaFirst |-> FALSE, coldStart |-> FALSE]

\* RedisConnector.__init__: no hash is tracked; the remote hash starts empty
MirrorInit ==
    /\ redis = NoFields
    /\ pubsub = [open |-> FALSE, q |-> << >>]
    /\ hash_frozen = "absent"
    /\ hash_data = [loaded |-> FALSE, fields |-> NoFields]
    /\ sub = [pc |-> "idle", err |-> "none", calls |-> 0]
    /\ w = WorkerOff
    /\ wr = WriterIdle
    /\ obs = NoObs
    /\ rd = NoRead
    /\ gh = NoGhost

\* the threads that call one VersionedDict
Threads == {"t1", "t2"}

\* a thread outside any call
NoCall ==
    [pc |-> "idle", op |-> "none", key |-> "", value |-> "", local |-> << >>,
     pre |-> << >>, seen |-> << >>]

\* __init__ : empty data, empty diff, empty deque of the given maxlen
Init ==
    /\ MirrorInit
    /\ lock = "free"
    /\ calls = [t \in Threads |-> NoCall]
    /\ max_history \in MaxHistories
    /\ data = EmptyData
    /\ changes = EmptyDict
    /\ history = << >>
    /\ ret = NoRet
    /\ restored = NotRestored
    /\ txStart = EmptyData
    /\ prevStart = EmptyData
    /\ base = EmptyData
    /\ bases = << >>
    /\ rbRun = 0
    /\ ncommit = 0

\* ------------------------------------------------------------- operations
\* __setitem__ gone wrong: the prior value is recorded without comparing it
\* with the value written
SetChangesAlways(ch, dat, key, value) ==
    IF ~Has(ch, key)
    THEN IF key \notin DOMAIN dat
         THEN Put(ch, key, KEY_CREATED)
         ELSE Put(ch, key, dat[key])
    ELSE ch

\* the diff __setitem__ leaves in _changes
SetChanges(ch, dat, key, value) ==
    IF ~Has(ch, key)
    THEN IF key \notin DOMAIN dat
         THEN Put(ch, key, KEY_CREATED)
         ELSE IF dat[key] # value THEN Put(ch, key, dat[key]) ELSE ch
    ELSE ch

\* the type of a value
Kind(value) ==
    IF value \in DictValues THEN "dict"
    ELSE IF value \in HashableValues THEN "str"
    ELSE "list"

\* the type check gone wrong: the isinstance(value, dict) branch is missing
AcceptedHashable(value) == value \in HashableValues

\* isinstance(value, dict) or isinstance(value, Hashable)
Accepted(value) == value \in DictValues \/ value \in HashableValues

\* vd[key] = value
SetItem(key, value) ==
    /\ prevStart' = EmptyData
    /\ UNCHANGED <<history, max_history, txStart, rbRun, ncommit>>
    /\ IF ~Accepted(value)
       THEN /\ ret' = Ret("set", "ValueError", << >>, Kind(value), "", FALSE)
            /\ UNCHANGED <<data, changes>>
       ELSE /\ changes' = SetChanges(changes, data, key, value)
            /\ data' = DataSet(data, key, value)
            /\ ret' = Ret("set", "none", << >>, Kind(value),
                          IF ~Has(changes, key) /\ key \in DOMAIN data /\ data[key] = value
                          THEN key ELSE "", FALSE)

\* the diff __delitem__ leaves in _changes (for a key it can read)
DelChanges(ch, dat, key) ==
    IF ~Has(ch, key) THEN Put(ch, key, dat[key])
    ELSE IF Get(ch, key) = KEY_CREATED THEN Remove(ch, key)
    ELSE ch

\* del vd[key]
DelItem(key) ==
    /\ prevStart' = EmptyData
    /\ UNCHANGED <<history, max_history, txStart, rbRun, ncommit>>
    /\ IF ~Has(changes, key) /\ key \notin DOMAIN data
       THEN \* self.data[key] raises before _changes is touched
            /\ ret' = Ret("del", "KeyError", << >>, "", "", FALSE)
            /\ UNCHANGED <<data, changes>>
       ELSE /\ changes' = DelChanges(changes, data, key)
            /\ IF key \in DOMAIN data
               THEN /\ data' = DataDel(data, key)
                    /\ ret' = Ret("del", "none", << >>, "", "", FALSE)
               ELSE \* super().__delitem__ raises
                    /\ data' = data
                    /\ ret' = Ret("del", "KeyError", << >>, "", "", FALSE)

\* vd.commit()
Commit ==
    /\ max_history = NoLimit => Len(history) < MaxLen
    /\ history' = DequeAppend(history, changes, max_history)
    /\ changes' = EmptyDict
    /\ ret' = Ret("commit", "none", << >>, "", "", FALSE)
    /\ prevStart' = txStart
    /\ txStart' = data
    /\ rbRun' = 0
    /\ ncommit' = IF ncommit < ManyCommits THEN ncommit + 1 ELSE ncommit
    /\ UNCHANGED <<data, max_history>>

\* rollback gone wrong: the oldest historical diff is taken (popleft for pop)
RollbackChangesOldest(ch, hist) == Update(ch, Head(hist))

\* the diff rollback undoes: the open diff updated with the last historical one
RollbackChanges(ch, hist) == Update(ch, Last(hist))

\* rollback gone wrong: _changes is taken and reset before the history check
EmptyHistoryChangesTaken(ch) == EmptyDict

\* the open diff a rollback() that raises "Empty history" leaves: the raise
\* comes before _changes is taken
EmptyHistoryChanges(ch) == ch

\* vd.rollback()
Rollback ==
    /\ prevStart' = EmptyData
    /\ UNCHANGED <<max_history, ncommit>>
    /\ IF Len(history) = 0
       THEN /\ ret' = Ret("rollback", "EmptyHistory", << >>, "", NoopBefore, ret.op = "commit")
            /\ changes' = EmptyHistoryChanges(changes)
            /\ UNCHANGED <<data, history, txStart, rbRun>>
       ELSE LET merged == RollbackChanges(changes, history)
                undone == UndoChanges(data, merged)
            IN  /\ changes' = EmptyDict
                /\ history' = Front(history)
                /\ data' = undone.data
                /\ ret' = Ret("rollback", undone.err,
                              IF undone.err = "none" THEN KeysOf(merged) ELSE << >>,
                              "", NoopBefore, ret.op = "commit")
                /\ txStart' = undone.data
                /\ rbRun' = IF undone.err = "none" THEN rbRun + 1 ELSE rbRun

\* vd.revert()
Revert ==
    LET undone == UndoChanges(data, changes)
    IN  /\ changes' = EmptyDict
        /\ data' = undone.data
        /\ ret' = Ret("revert", undone.err,
                      IF undone.err = "none" THEN KeysOf(changes) ELSE << >>,
                      "", NoopBefore, FALSE)
        /\ txStart' = undone.data
        /\ prevStart' = EmptyData
        /\ UNCHANGED <<history, max_history, rbRun, ncommit>>

\* VersionedDict.from_obj(vd.to_obj())
RoundTrip ==
    /\ restored' = [valid |-> TRUE] @@ FromObj(ToObj(data, history, changes, max_history))
    /\ ret' = Ret("roundtrip", "none", << >>, "", "", FALSE)
    /\ prevStart' = EmptyData
    /\ UNCHANGED <<data, changes, history, max_history, txStart, rbRun, ncommit>>

\* ------------------------------------------------- the committed states
\* base is the state as of the last commit() that has not been rolled back (the
\* empty store when there is none) and bases holds, for every diff in history,
\* the base that diff leads back to: commit() pushes, rollback() pops
BaseStep ==
    IF ret'.op = "commit"
    THEN /\ bases' = DequeAppend(bases, base, max_history)
         /\ base' = data
    ELSE IF ret'.op = "rollback" /\ ret'.err # "EmptyHistory"
    THEN /\ base' = Last(bases)
         /\ bases' = Front(bases)
    ELSE UNCHANGED <<base, bases>>

\* ---------------------------------------------------------- specifications
\* the values the callers of Spec write: a str, a nested dict, a list
SpecValues == {"1", "{}", "[]"}

\* a call on the store, the committed states and round trips left out
Call(A) == A /\ UNCHANGED <<restored, base, bases>> /\ UNCHANGED <<mvars, lvars>>

Next ==
    \/ \E key \in Keys, value \in SpecValues : Call(SetItem(key, value))
    \/ \E key \in Keys : Call(DelItem(key))
    \/ Call(Commit)
    \/ Call(Rollback)
    \/ Call(Revert)

Spec == Init /\ [][Next]_vars

\* the values the callers of SpecRT write: two strs, one of them the text of
\* the marker, and a list
RTValues == {"1", "__CREATED__", "[]"}

\* a call on the store after which an earlier round trip's result is dropped
CallRT(A) ==
    A /\ restored' = NotRestored /\ UNCHANGED <<base, bases>> /\ UNCHANGED <<mvars, lvars>>

NextRT ==
    \/ \E key \in Keys, value \in RTValues : CallRT(SetItem(key, value))
    \/ \E key \in Keys : CallRT(DelItem(key))
    \/ CallRT(Commit)
    \/ CallRT(Rollback)
    \/ CallRT(Revert)
    \/ RoundTrip /\ UNCHANGED <<base, bases>> /\ UNCHANGED <<mvars, lvars>>

SpecRT == Init /\ [][NextRT]_vars

\* the stores of SpecBase
BaseHistories == {NoLimit, 1}

InitBase == Init /\ max_history \in BaseHistories

\* a call on the store with the committed states kept
CallBase(A) == A /\ BaseStep /\ UNCHANGED restored /\ UNCHANGED <<mvars, lvars>>

NextBase ==
    \/ \E key \in Keys, value \in SpecValues : CallBase(SetItem(key, value))
    \/ \E key \in Keys : CallBase(DelItem(key))
    \/ CallBase(Commit)
    \/ CallBase(Rollback)
    \/ CallBase(Revert)

SpecBase == InitBase /\ [][NextBase]_vars

\* ------------------------------------------------------------ properties
\* the keys of a returned tuple
Returned(keys) == {keys[i] : i \in 1 .. Len(keys)}

\* key has the same presence and the same value in the stores d and e
SameAt(d, e, key) ==
    /\ (key \in DOMAIN d) = (key \in DOMAIN e)
    /\ key \in DOMAIN d => d[key] = e[key]

\* two histories hold equal dicts in the same order (Python's == on deques of dicts)
SameHistory(h, g) ==
    /\ Len(h) = Len(g)
    /\ \A i \in 1 .. Len(h) : AsMap(h[i]) = AsMap(g[i])

\* C1: a rollback() on a non-empty history completes without error, open
\* changes or not, and leaves data as it was at the start of the most recently
\* committed transaction.
C1_RollbackCompletes ==
    (ret.op = "rollback" /\ ret.err # "EmptyHistory") => (ret.err = "none" /\ data = base)

\* C2: a rollback() called right after set/delete operations and a commit()
\* restores data to the state before those operations and removes the diff of
\* that commit from history.
C2_CommitThenRollback ==
    [][(ret.op = "commit" /\ ret'.op = "rollback")
          => (/\ ret'.err = "none"
              /\ data' = prevStart
              /\ Len(history) > 0
              /\ history' = Front(history))]_vars

\* C2 as amended: the same for every store whose max_history is not 0.
C2_CommitThenRollbackKept ==
    [][(ret.op = "commit" /\ ret'.op = "rollback" /\ max_history # 0)
          => (/\ ret'.err = "none"
              /\ data' = prevStart
              /\ Len(history) > 0
              /\ history' = Front(history))]_vars

\* C2 witness: a rollback() right after a commit() has undone a transaction
\* that created one key and deleted another.
C2_Witness ==
    /\ ret.op = "rollback" /\ ret.imm /\ ret.err = "none"
    /\ Len(ret.keys) = 2
    /\ data # EmptyData
    /\ Len(history) > 0

\* C3: the keys a successful rollback() returns right after set/delete
\* operations and a commit() are exactly the keys whose value or presence
\* differs between the state before those operations and the state at the commit.
C3_ReturnsChangedKeys ==
    [][(ret.op = "commit" /\ ret'.op = "rollback" /\ ret'.err = "none")
          => Returned(ret'.keys) = {key \in Keys : ~SameAt(prevStart, data, key)}]_vars

\* C4: revert() never fails, restores data to the state as of the last commit()
\* (the empty store when there is none), empties the open diff and leaves history
\* unchanged; on an empty open diff it returns nothing and changes nothing.
C4_RevertRestoresCommitted ==
    [][ret'.op = "revert"
          => (/\ ret'.err = "none"
              /\ data' = base'
              /\ changes' = EmptyDict
              /\ history' = history
              /\ changes = EmptyDict => (ret'.keys = << >> /\ data' = data))]_vars

\* C5: history never holds more than max_history diffs, so no more than
\* max_history rollbacks succeed after a commit(); a commit() on a full history
\* discards the oldest diff and a rollback() takes the newest one.
C5_HistoryBound ==
    /\ [](max_history # NoLimit => (Len(history) <= max_history /\ rbRun <= max_history))
    /\ [][(ret'.op = "commit" /\ max_history > 0 /\ Len(history) = max_history)
             => history' = Append(Tail(history), changes)]_vars
    /\ [][(ret'.op = "rollback" /\ ret'.err # "EmptyHistory")
             => (Len(history) > 0 /\ history' = Front(history))]_vars

\* C5 witness: more commits than max_history = 2, then two successful
\* rollbacks, then a rollback that raised "Empty history".
C5_Witness ==
    /\ max_history = 2
    /\ ncommit = ManyCommits
    /\ rbRun = 2
    /\ ret.op = "rollback" /\ ret.err = "EmptyHistory"

\* C6: the store from_obj(to_obj()) builds has data, history, open diff and
\* max_history equal to the original's.
C6_RoundTrip ==
    restored.valid =>
        /\ restored.data = data
        /\ SameHistory(restored.history, history)
        /\ AsMap(restored.changes) = AsMap(changes)
        /\ restored.max_history = max_history

\* C7: rollback() raises "Empty history" exactly when history is empty, open
\* changes or not, and then leaves data, the open diff and history unchanged.
C7_EmptyHistory ==
    [][ret'.op = "rollback"
          => (/\ (ret'.err = "EmptyHistory") = (Len(history) = 0)
              /\ Len(history) = 0 => (/\ data' = data
                                      /\ changes' = changes
                                      /\ history' = history))]_vars

\* C7 witness: the history has been rolled back to empty and, with uncommitted
\* changes open, the next rollback() raised "Empty history".
C7_Witness ==
    /\ ret.op = "rollback" /\ ret.err = "EmptyHistory"
    /\ rbRun >= 1
    /\ changes # EmptyDict
    /\ data # EmptyData

\* C8: a write of a list raises ValueError and leaves data, the open diff and
\* history unchanged; a write of a str or of a nested dict is accepted.
C8_MutableRejected ==
    [][ret'.op = "set"
          => IF ret'.kind = "list"
             THEN /\ ret'.err = "ValueError"
                  /\ data' = data /\ changes' = changes /\ history' = history
             ELSE ret'.err = "none"]_vars

\* C8 witness: a write of a list was rejected on a store that holds a nested
\* dict and has an open diff.
C8_Witness ==
    /\ ret.op = "set" /\ ret.kind = "list" /\ ret.err = "ValueError"
    /\ \E key \in DOMAIN data : data[key] \in DictValues
    /\ changes # EmptyDict

\* C9: a write of the value a key already holds, the key having no entry in the
\* open diff, adds no entry; a revert() or rollback() right after it neither
\* changes the key nor returns it; and no write changes an entry the open diff
\* already has.
C9_NoopWrite ==
    /\ [][(ret'.op = "set" /\ ret'.noop # "") => changes' = changes]_vars
    /\ [][(ret'.op \in {"revert", "rollback"} /\ ret'.noop # "")
             => (/\ ret'.noop \notin Returned(ret'.keys)
                 /\ SameAt(data, data', ret'.noop))]_vars
    /\ [][ret'.op = "set"
             => \A key \in KeySet(changes) :
                    Has(changes', key) /\ Get(changes', key) = Get(changes, key)]_vars

\* C9 as amended: the same, a rollback() right after the write leaving the key
\* alone when the last diff in history has no entry for the key.
C9_NoopWriteUnlessCommitted ==
    /\ [][(ret'.op = "set" /\ ret'.noop # "") => changes' = changes]_vars
    /\ [][(/\ ret'.op \in {"revert", "rollback"} /\ ret'.noop # ""
           /\ ~(ret'.op = "rollback" /\ Len(history) > 0 /\ Has(Last(history), ret'.noop)))
             => (/\ ret'.noop \notin Returned(ret'.keys)
                 /\ SameAt(data, data', ret'.noop))]_vars
    /\ [][ret'.op = "set"
             => \A key \in KeySet(changes) :
                    Has(changes', key) /\ Get(changes', key) = Get(changes, key)]_vars

\* C9 witness: a rollback() right after such a write undid another key and
\* left the written key in place.
C9_Witness ==
    /\ ret.op = "rollback" /\ ret.err = "none"
    /\ ret.noop # ""
    /\ ret.keys # << >>
    /\ ret.noop \in DOMAIN data

\* C10: a key whose entry in the open diff is a real prior value holds, in
\* data, a value different from that prior value.
C10_PriorDiffers ==
    \A key \in KeySet(changes) :
        Get(changes, key) # KEY_CREATED
            => ~(key \in DOMAIN data /\ data[key] = Get(changes, key))

\* ------------------------------------------------- hash mirror: operations
\* at most this many calls of the write path in a run of the whole mirror
MaxWrites == 2

\* at most this many calls of the write path in a run without freeze
MaxLiveWrites == 3

\* m with field f set to v
PutField(m, f, v) == [x \in DOMAIN m \cup {f} |-> IF x = f THEN v ELSE m[x]]

\* m without field f; no error if f is absent
DelField(m, f) == [x \in DOMAIN m \ {f} |-> m[x]]

\* m overwritten by the entries of u
Merge(m, u) == [x \in DOMAIN m \cup DOMAIN u |-> IF x \in DOMAIN u THEN u[x] ELSE m[x]]

\* the field -> value maps over the fields fs
MapsOver(fs, vals) == UNION {[d -> vals] : d \in SUBSET fs}

\* a mapping of written values, serialized entry by entry
DumpsAll(m) == [f \in DOMAIN m |-> Dumps(m[f])]

\* the remote entries raw, decoded entry by entry
LoadsAll(raw) == [f \in DOMAIN raw |-> Loads(raw[f])]

\* HMGET: the stored value of each asked field, nil for a field the hash lacks
HMGet(h, fs) == [f \in fs |-> IF f \in DOMAIN h THEN h[f] ELSE Nil]

\* a subscription that takes messages only once the worker runs
DeliveredOnceStarted(ps, names) ==
    IF ps.open /\ w.pc # "off" THEN [ps EXCEPT !.q = Append(@, names)] ELSE ps

\* PUBLISH: delivered to the subscription if it is open, dropped otherwise
Delivered(ps, names) ==
    IF ps.open THEN [ps EXCEPT !.q = Append(@, names)] ELSE ps

\* __setitem__[key, hkey] = data, hkey a str: HSET of the one field
WriteSingle(f, v) ==
    /\ wr.pc = "idle"
    /\ redis' = PutField(redis, f, Dumps(v))
    /\ wr' = [wr EXCEPT !.pc = "publish", !.kind = "str", !.names = {f}, !.n = @ + 1]
    /\ UNCHANGED <<pubsub, hash_frozen, hash_data, sub, w, obs, rd>>

\* the names a full replace publishes: the keys of the new mapping
ReplaceNames(old, m) == DOMAIN m

\* __setitem__[key, :] = data: DELETE and, for a non-empty mapping, HSET in one
\* pipeline; nothing is published for an empty mapping
WriteReplace(m) ==
    /\ wr.pc = "idle"
    /\ redis' = DumpsAll(m)
    /\ wr' = [wr EXCEPT !.pc = IF ReplaceNames(redis, m) # {} THEN "publish" ELSE "idle",
                        !.kind = "slice", !.names = ReplaceNames(redis, m), !.n = @ + 1]
    /\ UNCHANGED <<pubsub, hash_frozen, hash_data, sub, w, obs, rd>>

\* __setitem__[key, hkey] = data, hkey a list: upd are the entries with a value,
\* dels the entries with None. The first command is HSET of upd if there is one,
\* HDEL of dels otherwise.
WriteBatch(upd, dels) ==
    /\ wr.pc = "idle"
    /\ DOMAIN upd \cap dels = {}
    /\ DOMAIN upd \cup dels # {}
    /\ IF upd # NoFields
         THEN /\ redis' = Merge(redis, DumpsAll(upd))
              /\ wr' = [wr EXCEPT !.pc = IF dels # {} THEN "hdel" ELSE "publish",
                                  !.kind = "list", !.dels = dels, !.names = DOMAIN upd \cup dels, !.n = @ + 1]
         ELSE /\ redis' = [f \in DOMAIN redis \ dels |-> redis[f]]
              /\ wr' = [wr EXCEPT !.pc = "publish", !.kind = "list", !.names = dels,
                                  !.n = @ + 1]
    /\ UNCHANGED <<pubsub, hash_frozen, hash_data, sub, w, obs, rd>>

\* the HDEL of a batch that also had updates
WriteHdel ==
    /\ wr.pc = "hdel"
    /\ redis' = [f \in DOMAIN redis \ wr.dels |-> redis[f]]
    /\ wr' = [wr EXCEPT !.pc = "publish", !.dels = {}]
    /\ UNCHANGED <<pubsub, hash_frozen, hash_data, sub, w, obs, rd>>

\* publish("hash_updates:" + key, updated_hashes)
Publish ==
    /\ wr.pc = "publish"
    /\ pubsub' = Delivered(pubsub, wr.names)
    /\ wr' = [wr EXCEPT !.pc = "idle", !.names = {}]
    /\ UNCHANGED <<redis, hash_frozen, hash_data, sub, w, obs, rd>>

\* at most this many calls of subscribe_hash in a run
MaxSubscribes == 2

\* the value of self.hash_frozen[key] for a bool
Flag(b) == IF b THEN "frozen" ELSE "unfrozen"

\* subscribe_hash, the check and the registration: raise if the key is in
\* hash_frozen, else hash_frozen[key] = start_frozen
SubscribeHash(start_frozen) ==
    /\ sub.pc = "idle"
    /\ IF hash_frozen # "absent"
         THEN /\ sub' = [sub EXCEPT !.err = "AlreadySubscribed", !.calls = @ + 1]
              /\ UNCHANGED hash_frozen
         ELSE /\ sub' = [sub EXCEPT !.pc = "subscribe", !.err = "none", !.calls = @ + 1]
              /\ hash_frozen' = Flag(start_frozen)
    /\ UNCHANGED <<redis, pubsub, hash_data, w, wr, obs, rd>>

\* pubsub.subscribe("hash_updates:" + key)
SubscribeOpen ==
    /\ sub.pc = "subscribe"
    /\ pubsub' = [pubsub EXCEPT !.open = TRUE]
    /\ sub' = [sub EXCEPT !.pc = "load"]
    /\ UNCHANGED <<redis, hash_frozen, hash_data, w, wr, obs, rd>>

\* hash_data[key] = the decoded HGETALL
SubscribeLoad ==
    /\ sub.pc = "load"
    /\ hash_data' = [loaded |-> TRUE, fields |-> LoadsAll(redis)]
    /\ sub' = [sub EXCEPT !.pc = "start"]
    /\ UNCHANGED <<redis, pubsub, hash_frozen, w, wr, obs, rd>>

\* thread.start(): the worker enters its loop with updated_initial = False and
\* frozen_updates = set()
SubscribeStart ==
    /\ sub.pc = "start"
    /\ w' = [WorkerOff EXCEPT !.pc = "get"]
    /\ sub' = [sub EXCEPT !.pc = "idle"]
    /\ UNCHANGED <<redis, pubsub, hash_frozen, hash_data, wr, obs, rd>>

\* a worker that takes the hash for unfrozen whatever the flag holds
IsFrozenNever(flag) == FALSE

\* the truth value of self.hash_frozen[key] as the worker reads it
IsFrozen(flag) == flag = "frozen"

\* the timeout of the first get_message: 1 if the hash is frozen or the initial
\* update is not sent yet, None (wait without limit) otherwise
Blocks(flag, updated_initial) == ~(IsFrozen(flag) \/ ~updated_initial)

\* the worker evaluates the timeout and enters get_message
WorkerGet ==
    /\ w.pc = "get"
    /\ w' = [w EXCEPT !.pc = "wait", !.block = Blocks(hash_frozen, w.updated_initial),
                      !.changed = {}]
    /\ UNCHANGED <<redis, pubsub, hash_frozen, hash_data, sub, wr, obs, rd>>

\* get_message returns a message: its names join changed_keys, and the worker
\* goes on to take what else is available
WorkerMessage ==
    /\ w.pc \in {"wait", "drain"}
    /\ pubsub.q # << >>
    /\ pubsub' = [pubsub EXCEPT !.q = Tail(@)]
    /\ w' = [w EXCEPT !.pc = "drain", !.changed = @ \cup Head(pubsub.q)]
    /\ UNCHANGED <<redis, hash_frozen, hash_data, sub, wr, obs, rd>>

\* get_message returns None: the bounded wait timed out, or nothing more is
\* available after a message. A wait without limit does not return None.
WorkerNone ==
    /\ pubsub.q = << >>
    /\ \/ w.pc = "wait" /\ ~w.block
       \/ w.pc = "drain"
    /\ w' = [w EXCEPT !.pc = "cache"]
    /\ UNCHANGED <<redis, pubsub, hash_frozen, hash_data, sub, wr, obs, rd>>

\* a worker that never flushes frozen_updates
FlushesNever(frozen, frozen_updates) == FALSE

\* if not frozen and len(frozen_updates) != 0
Flushes(frozen, frozen_updates) == ~frozen /\ frozen_updates # {}

\* frozen = self.hash_frozen[key], then the flush of frozen_updates into
\* changed_keys if not frozen
WorkerCache ==
    /\ w.pc = "cache"
    /\ LET frozen == IsFrozen(hash_frozen)
           flush == Flushes(frozen, w.frozen_updates)
       IN  w' = [w EXCEPT !.pc = "initial", !.frozen = frozen,
                          !.changed = IF flush THEN w.frozen_updates \cup @ ELSE @,
                          !.frozen_updates = IF flush THEN {} ELSE @]
    /\ UNCHANGED <<redis, pubsub, hash_frozen, hash_data, sub, wr, obs, rd>>

\* _on_new_data(hash_data[key], keys): the observer is invoked
Invoked(fields, keys) == [called |-> TRUE, keys |-> keys, fields |-> fields]

\* what the worker does with changed_keys when frozen: keep them for later
Buffered(frozen_updates, changed) == frozen_updates \cup changed

\* a worker that sends the initial update in every round it is not frozen
InitialDueAlways(updated_initial, frozen) == ~frozen

\* if not updated_initial and not frozen
InitialDue(updated_initial, frozen) == ~updated_initial /\ ~frozen

\* the initial update if it is due, then: nothing changed -> next round; frozen
\* -> changed_keys are kept in frozen_updates, next round; else go on to HMGET
WorkerInitial ==
    /\ w.pc = "initial"
    /\ LET initial == InitialDue(w.updated_initial, w.frozen)
       IN  /\ obs' = IF initial THEN Invoked(hash_data.fields, DOMAIN hash_data.fields)
                                ELSE obs
           /\ w' = [w EXCEPT !.updated_initial = @ \/ initial,
                             !.pc = IF w.changed = {} \/ w.frozen THEN "get" ELSE "fetch",
                             !.frozen_updates = IF w.changed # {} /\ w.frozen
                                                  THEN Buffered(@, w.changed) ELSE @,
                             !.changed = IF w.changed = {} \/ w.frozen THEN {} ELSE @]
    /\ UNCHANGED <<redis, pubsub, hash_frozen, hash_data, sub, wr, rd>>

\* changed_values_serialized = HMGET of changed_keys
WorkerFetch ==
    /\ w.pc = "fetch"
    /\ w' = [w EXCEPT !.pc = "apply", !.fetched = HMGet(redis, w.changed)]
    /\ UNCHANGED <<redis, pubsub, hash_frozen, hash_data, sub, wr, obs, rd>>

\* a loop that stores values and leaves a removed field where it is
AppliedStoreOnly(fields, f, value_serialized) ==
    IF value_serialized = Nil THEN fields
                              ELSE PutField(fields, f, Loads(value_serialized))

\* one round of the loop over changed_keys: a nil value deletes the local entry,
\* any other value is decoded and stored
Applied(fields, f, value_serialized) ==
    IF value_serialized = Nil THEN DelField(fields, f)
                              ELSE PutField(fields, f, Loads(value_serialized))

\* the loop applies one key per step, in the order of list(set(...))
WorkerApply ==
    /\ w.pc = "apply"
    /\ w.fetched # NoFields
    /\ \E f \in DOMAIN w.fetched :
         /\ hash_data' = [hash_data EXCEPT !.fields = Applied(@, f, w.fetched[f])]
         /\ w' = [w EXCEPT !.fetched = DelField(@, f)]
    /\ UNCHANGED <<redis, pubsub, hash_frozen, sub, wr, obs, rd>>

\* after the loop: _on_new_data(hash_data[key], changed_keys)
WorkerNotify ==
    /\ w.pc = "apply"
    /\ w.fetched = NoFields
    /\ obs' = Invoked(hash_data.fields, w.changed)
    /\ w' = [w EXCEPT !.pc = "get", !.changed = {}]
    /\ UNCHANGED <<redis, pubsub, hash_frozen, hash_data, sub, wr, rd>>

\* freeze_hash: hash_frozen[key] = True
FreezeHash ==
    /\ hash_frozen' = "frozen"
    /\ UNCHANGED <<redis, pubsub, hash_data, sub, w, wr, obs, rd>>

\* unfreeze_hash: hash_frozen[key] = False
UnfreezeHash ==
    /\ hash_frozen' = "unfrozen"
    /\ UNCHANGED <<redis, pubsub, hash_data, sub, w, wr, obs, rd>>

\* ----------------------------------------------------- hash mirror: reads
\* the local fields map with what is left of the fetched batch applied
RECURSIVE AppliedAll(_, _)
AppliedAll(fields, fetched) ==
    IF fetched = NoFields THEN fields
    ELSE LET f == CHOOSE x \in DOMAIN fetched : TRUE
         IN  AppliedAll(Applied(fields, f, fetched[f]), DelField(fetched, f))

\* the fields map before and after the batch the worker is applying; both are
\* the map as it is when no batch is being applied
BatchPre == IF w.pc = "apply" THEN gh.before ELSE hash_data.fields
BatchPost == IF w.pc = "apply" THEN AppliedAll(hash_data.fields, w.fetched)
                               ELSE hash_data.fields

\* {k: data.get(k) for k in hkey}: None for a field the map lacks
GetAll(cached, hkey) ==
    [f \in hkey |-> IF f \in DOMAIN cached THEN ToString(cached[f]) ELSE "None"]

\* __getitem__[key, hkey], hkey a str: hash_data[key][hkey] if the key is in
\* hash_data, else json.loads of HGET
ReadSingle(f) ==
    /\ rd' = IF hash_data.loaded
               THEN [op |-> "str", hkey |-> {f}, local |-> f \in DOMAIN hash_data.fields,
                     remote |-> FALSE,
                     err |-> IF f \in DOMAIN hash_data.fields THEN "none" ELSE "KeyError",
                     value |-> [x \in {f} \cap DOMAIN hash_data.fields |-> hash_data.fields[x]],
                     pre |-> BatchPre, post |-> BatchPost]
               ELSE [op |-> "str", hkey |-> {f}, local |-> FALSE, remote |-> TRUE,
                     err |-> IF f \in DOMAIN redis THEN "none" ELSE "TypeError",
                     value |-> [x \in {f} \cap DOMAIN redis |-> Loads(redis[x])],
                     pre |-> LoadsAll(redis), post |-> LoadsAll(redis)]
    /\ UNCHANGED <<redis, pubsub, hash_frozen, hash_data, sub, w, wr, obs>>

\* __getitem__[key, :]: hash_data[key] itself if the key is in hash_data, else
\* the decoded HGETALL
ReadSlice ==
    /\ rd' = IF hash_data.loaded
               THEN [op |-> "slice", hkey |-> Fields, local |-> TRUE, remote |-> FALSE,
                     err |-> "none", value |-> hash_data.fields,
                     pre |-> BatchPre, post |-> BatchPost]
               ELSE [op |-> "slice", hkey |-> Fields, local |-> FALSE, remote |-> TRUE,
                     err |-> "none", value |-> LoadsAll(redis),
                     pre |-> LoadsAll(redis), post |-> LoadsAll(redis)]
    /\ UNCHANGED <<redis, pubsub, hash_frozen, hash_data, sub, w, wr, obs>>

\* __getitem__[key, hkey], hkey a list: data.get for each name if the key is in
\* hash_data, else HMGET decoded, None for a field the hash lacks. The
\* comprehension is taken as one step.
ReadList(hkey) ==
    /\ rd' = IF hash_data.loaded
               THEN [op |-> "list", hkey |-> hkey, local |-> TRUE, remote |-> FALSE,
                     err |-> "none", value |-> GetAll(hash_data.fields, hkey),
                     pre |-> BatchPre, post |-> BatchPost]
               ELSE [op |-> "list", hkey |-> hkey, local |-> FALSE, remote |-> TRUE,
                     err |-> "none", value |-> GetAll(LoadsAll(redis), hkey),
                     pre |-> LoadsAll(redis), post |-> LoadsAll(redis)]
    /\ UNCHANGED <<redis, pubsub, hash_frozen, hash_data, sub, w, wr, obs>>

\* ------------------------------------------- hash mirror: history variables
\* the steps the history variables follow
WriteStarts == wr'.n # wr.n
Publishes == wr.pc = "publish" /\ wr'.pc = "idle"
Delivers == Publishes /\ pubsub.open
Fetches == w.pc = "fetch" /\ w'.pc = "apply"
Caches == w.pc = "cache" /\ w'.pc = "initial"
Invokes == \/ w.pc = "initial" /\ w'.updated_initial /\ ~w.updated_initial
           \/ w.pc = "apply" /\ w'.pc = "get"
Thaws == hash_frozen = "frozen" /\ hash_frozen' # "frozen"
Chills == hash_frozen # "frozen" /\ hash_frozen' = "frozen"

\* the local fields map differs from the remote hash at field f
Stale(f) ==
    IF f \in DOMAIN redis
      THEN f \notin DOMAIN hash_data.fields \/ hash_data.fields[f] # Loads(redis[f])
      ELSE f \in DOMAIN hash_data.fields

\* the history of deliveries: batches, calls, pending, early
GhostDelivery ==
    gh' = [gh EXCEPT
             !.batches = IF Fetches THEN @ + 1 ELSE @,
             !.calls   = IF Invokes THEN @ + 1 ELSE @,
             !.pending = IF Delivers THEN @ \cup wr.names
                         ELSE IF Fetches THEN @ \ w.changed
                         ELSE @,
             !.early   = IF Delivers /\ w.pc = "off" /\ hash_data.loaded
                           THEN @ \cup {f \in wr.names : Stale(f)}
                           ELSE @]

\* the history of the frozen interval: cold, frozenNames, aware
GhostFrozen ==
    LET whole == Fetches /\ hash_frozen = "unfrozen" /\ gh.frozenNames \subseteq w.changed
    IN  gh' = [gh EXCEPT
                 !.cold = IF WriteStarts THEN hash_frozen = "frozen"
                          ELSE IF Thaws \/ Publishes THEN FALSE
                          ELSE @,
                 !.frozenNames = IF Delivers /\ gh.cold /\ hash_frozen = "frozen"
                                   THEN @ \cup wr.names
                                 ELSE IF Chills \/ whole THEN {}
                                 ELSE @,
                 !.aware = IF Caches THEN hash_frozen = "frozen"
                           ELSE IF Thaws \/ Chills THEN FALSE
                           ELSE @]

\* the steps of a round the history of the thaw follows
Takes == w.pc \in {"wait", "drain"} /\ Len(pubsub'.q) < Len(pubsub.q)
Flushing == Caches /\ w.frozen_updates # {} /\ w'.frozen_updates = {}
InvokesInitial == w.pc = "initial" /\ obs' # obs
InvokesDelta == w.pc = "apply" /\ w'.pc = "get"

\* the history of the thaw and of the initial update: thawed, marks, tookLate,
\* flushed, initials, deltaFirst, coldStart
GhostThaw ==
    gh' = [gh EXCEPT
             !.thawed = IF Thaws THEN TRUE ELSE IF Chills THEN FALSE ELSE @,
             !.marks = IF Chills THEN [i \in 1 .. Len(@) |-> FALSE]
                       ELSE IF Delivers
                         THEN Append(@, gh.thawed /\ hash_frozen = "unfrozen")
                       ELSE IF Takes THEN Tail(@)
                       ELSE @,
             !.tookLate = IF Chills \/ w'.pc = "get" THEN {}
                          ELSE IF Takes /\ Head(gh.marks) THEN @ \cup Head(pubsub.q)
                          ELSE @,
             !.flushed = IF w'.pc = "get" THEN {}
                         ELSE IF Flushing THEN w.frozen_updates
                         ELSE @,
             !.initials = IF InvokesInitial /\ @ < 2 THEN @ + 1 ELSE @,
             !.deltaFirst = @ \/ (InvokesDelta /\ gh.initials = 0),
             !.coldStart = IF hash_frozen = "absent" THEN hash_frozen' = "frozen"
                           ELSE IF Thaws THEN FALSE
                           ELSE @]

\* the history of the batch being applied: before
GhostBatch ==
    gh' = [gh EXCEPT !.before = IF Fetches THEN hash_data.fields
                                ELSE IF w'.pc # "apply" THEN NoFields
                                ELSE @]

\* -------------------------------------------- hash mirror: specifications
\* a step of the mirror leaves the versioned dict alone
CallMirror(A) == A /\ GhostFrozen /\ UNCHANGED <<dvars, lvars>>

\* the same step, with the history of deliveries
CallLive(A) == A /\ GhostDelivery /\ UNCHANGED <<dvars, lvars>>

\* the steps of the worker thread
Worker ==
    \/ WorkerGet
    \/ WorkerMessage
    \/ WorkerNone
    \/ WorkerCache
    \/ WorkerInitial
    \/ WorkerFetch
    \/ WorkerApply
    \/ WorkerNotify

\* the steps of subscribe_hash after its check
Subscribing ==
    \/ SubscribeOpen
    \/ SubscribeLoad
    \/ SubscribeStart

\* the steps that complete a write in progress
Writing ==
    \/ WriteHdel
    \/ Publish

\* one dict, so that the mirror is the only thing that moves
InitMirror == Init /\ max_history = NoLimit

\* the whole mirror: subscribe, every kind of write, freeze and unfreeze
NextMirror ==
    \/ \E start_frozen \in BOOLEAN :
         sub.calls < MaxSubscribes /\ CallMirror(SubscribeHash(start_frozen))
    \/ CallMirror(Subscribing)
    \/ \E f \in Fields, v \in AppValues :
         wr.n < MaxWrites /\ CallMirror(WriteSingle(f, v))
    \/ \E m \in MapsOver(Fields, AppValues) :
         wr.n < MaxWrites /\ CallMirror(WriteReplace(m))
    \/ \E upd \in MapsOver(Fields, AppValues), dels \in SUBSET Fields :
         wr.n < MaxWrites /\ CallMirror(WriteBatch(upd, dels))
    \/ CallMirror(Writing)
    \/ CallMirror(Worker)
    \/ CallMirror(FreezeHash)
    \/ CallMirror(UnfreezeHash)

SpecMirror == InitMirror /\ [][NextMirror]_vars

\* a mirror subscribed unfrozen and never frozen, written field by field and in
\* batches, at any point before, during and after subscribe_hash
NextLive ==
    \/ sub.calls < 1 /\ CallLive(SubscribeHash(FALSE))
    \/ CallLive(Subscribing)
    \/ \E f \in Fields, v \in AppValues :
         wr.n < MaxLiveWrites /\ CallLive(WriteSingle(f, v))
    \/ \E upd \in MapsOver(Fields, AppValues), dels \in SUBSET Fields :
         wr.n < MaxLiveWrites /\ CallLive(WriteBatch(upd, dels))
    \/ CallLive(Writing)
    \/ CallLive(Worker)

\* every thread that can take a step takes one in the end: the worker thread,
\* the caller inside subscribe_hash and the writer inside __setitem__
SpecLive ==
    /\ InitMirror
    /\ [][NextLive]_vars
    /\ WF_vars(CallLive(Worker))
    /\ WF_vars(CallLive(Subscribing))
    /\ WF_vars(CallLive(Writing))

\* the same step, with the history of the batch being applied
CallRead(A) == A /\ GhostBatch /\ UNCHANGED <<dvars, lvars>>

\* a mirror subscribed unfrozen, written field by field and in batches, and read
\* by another thread at any point
NextRead ==
    \/ sub.calls < 1 /\ CallRead(SubscribeHash(FALSE))
    \/ CallRead(Subscribing)
    \/ \E f \in Fields, v \in AppValues :
         wr.n < MaxWrites /\ CallRead(WriteSingle(f, v))
    \/ \E upd \in MapsOver(Fields, AppValues), dels \in SUBSET Fields :
         wr.n < MaxWrites /\ CallRead(WriteBatch(upd, dels))
    \/ CallRead(Writing)
    \/ CallRead(Worker)
    \/ \E f \in Fields : CallRead(ReadSingle(f))
    \/ CallRead(ReadSlice)
    \/ \E hkey \in SUBSET Fields : CallRead(ReadList(hkey))

SpecRead == InitMirror /\ [][NextRead]_vars

\* the same step, with the history of the thaw and of the initial update
CallThaw(A) == A /\ GhostThaw /\ UNCHANGED <<dvars, lvars>>

\* a mirror subscribed frozen or unfrozen, frozen and unfrozen at any point,
\* written field by field and in batches
NextThaw ==
    \/ \E start_frozen \in BOOLEAN :
         sub.calls < 1 /\ CallThaw(SubscribeHash(start_frozen))
    \/ CallThaw(Subscribing)
    \/ \E f \in Fields, v \in AppValues :
         wr.n < MaxWrites /\ CallThaw(WriteSingle(f, v))
    \/ \E upd \in MapsOver(Fields, AppValues), dels \in SUBSET Fields :
         wr.n < MaxWrites /\ CallThaw(WriteBatch(upd, dels))
    \/ CallThaw(Writing)
    \/ CallThaw(Worker)
    \/ hash_frozen # "absent" /\ CallThaw(FreezeHash)
    \/ hash_frozen # "absent" /\ CallThaw(UnfreezeHash)

SpecThaw == InitMirror /\ [][NextThaw]_vars

\* ------------------------------------------------ hash mirror: properties
\* the local fields map equals the remote hash, decoded
InSync == hash_data.loaded /\ hash_data.fields = LoadsAll(redis)

\* the observer's last report is the remote hash, and it has been invoked for
\* the initial update and once for every batch fetched
Reported ==
    /\ obs.called
    /\ obs.fields = LoadsAll(redis)
    /\ gh.calls = gh.batches + 1

\* C11: a mirror subscribed unfrozen and written field by field and in batches
\* (None deleting a field) ends, after the last write, with the local fields map
\* equal to the remote hash and with that state reported to the observer, which
\* has been invoked once for every batch the worker fetched.
C11_EventuallyInSync == <>[](hash_frozen # "absent" => InSync /\ Reported)

\* three writes have been made, at least two batches were fetched and applied,
\* and the observer holds both fields as they are in the remote hash
C11_Witness ==
    /\ wr.n = MaxLiveWrites /\ wr.pc = "idle"
    /\ gh.batches >= 2
    /\ InSync /\ Reported
    /\ DOMAIN obs.fields = Fields

\* the worker has processed every notification: it waits for the next one with
\* nothing queued and nothing kept back, the hash is unfrozen, the initial update
\* is sent and no write is in progress
Processed ==
    /\ hash_data.loaded /\ hash_frozen = "unfrozen"
    /\ w.pc = "wait" /\ w.updated_initial /\ w.frozen_updates = {}
    /\ pubsub.q = << >>
    /\ wr.pc = "idle"

\* C12: once the worker has processed every notification after a full-hash
\* replace, the local fields map holds exactly the fields of the remote hash: a
\* field the replace removed is gone locally too.
C12_ReplaceMirrored ==
    wr.kind = "slice" /\ Processed => DOMAIN hash_data.fields = DOMAIN redis

\* the names in the unread messages of the subscription
Queued == UNION {pubsub.q[i] : i \in 1 .. Len(pubsub.q)}

\* the names the worker holds between taking them and the HMGET
Held == IF w.pc = "apply" THEN {} ELSE w.changed

\* C13: the subscription is open before the snapshot is read, so no name
\* delivered from then on is lost: until the worker has fetched it again, it is
\* in an unread message, held by the worker for its next HMGET or kept in
\* frozen_updates; and once the worker has processed every notification the
\* local fields map equals the remote hash, whatever the interleaving of the
\* writes with the steps of subscribe_hash.
C13_NoNotificationLost ==
    /\ gh.pending \subseteq (Queued \cup Held \cup w.frozen_updates)
    /\ Processed => InSync

\* a notification arrived between the snapshot read and the start of the worker
\* for a field the snapshot did not have the written value of, and the worker has
\* re-read it since
C13_Witness ==
    /\ gh.early # {}
    /\ gh.batches >= 1
    /\ gh.pending = {}
    /\ Processed /\ InSync

\* C14: the writes made and published between freeze_hash and unfreeze_hash
\* reach the observer in one invocation after unfreeze_hash: a batch the worker
\* fetches that names a field of those writes is fetched with the hash unfrozen
\* and names every field of those writes.
C14_FrozenWritesOnce ==
    [][Fetches /\ w.changed \cap gh.frozenNames # {}
         => hash_frozen = "unfrozen" /\ gh.frozenNames \subseteq w.changed]_vars

\* C15: a single-field read of a field that is not present locally (no mirror
\* loaded, or no entry in the cached map) reads the field from redis and returns
\* the result without an error.
C15_ReadFallsBack ==
    rd.op = "str" /\ ~rd.local => rd.remote /\ rd.err = "none"

\* C16: what a list read or a full read returns while the worker applies a batch
\* is the fields map before the whole batch or after the whole batch.
C16_ReadSeesWholeBatch ==
    /\ rd.op = "slice" => rd.value \in {rd.pre, rd.post}
    /\ rd.op = "list" => rd.value \in {GetAll(rd.pre, rd.hkey), GetAll(rd.post, rd.hkey)}

\* C17: subscribe_hash raises "Already subscribed" only if an earlier
\* subscribe_hash call for the key was made; the first call never raises it.
C17_FirstSubscribeSucceeds ==
    sub.err = "AlreadySubscribed" => sub.calls > 1

\* C19: with names kept in frozen_updates and the hash unfrozen, the worker does
\* not wait without limit for a notification: it comes round to flush them.
C19_BufferedNotStranded ==
    ~(/\ w.pc = "wait" /\ w.block
      /\ pubsub.q = << >> /\ wr.pc = "idle"
      /\ w.frozen_updates # {}
      /\ hash_frozen = "unfrozen")

LockValues == {"1", "{}"}

\* the store as the calls read and write it
Store == [data |-> data, changes |-> changes, history |-> history]

\* a lock that lets every thread in
LockFreeAlways(l) == TRUE

\* Lock.acquire() goes through when no thread holds the lock
LockFree(l) == l = "free"

\* the positions of a call between acquiring the lock and releasing it
Inside == {"set1", "set2", "del1", "del2", "commit1", "commit2",
           "rollback1", "rollback2", "revert1", "undo", "release"}

\* a thread enters a call: vd[key] = value, del vd[key], commit(), rollback(),
\* revert(); __setitem__ has passed its isinstance checks
Enter(t, op, key, value) ==
    /\ calls[t].pc = "idle"
    /\ op = "commit" /\ max_history = NoLimit => Len(history) < MaxLen
    /\ calls' = [calls EXCEPT ![t] = [NoCall EXCEPT !.pc = "acquire", !.op = op,
                                                   !.key = key, !.value = value]]
    /\ UNCHANGED <<lock, data, changes, history>>

\* with self.lock: the thread takes the lock and starts the body of its call
Acquire(t) ==
    /\ calls[t].pc = "acquire"
    /\ LockFree(lock)
    /\ lock' = t
    /\ calls' = [calls EXCEPT ![t].pc = calls[t].op \o "1", ![t].pre = Store, ![t].seen = Store]
    /\ UNCHANGED <<data, changes, history>>

\* the thread's position and what it last left in the store
Moved(t, pc, local) ==
    calls' = [calls EXCEPT ![t].pc = pc, ![t].local = local,
                           ![t].seen = [data |-> data', changes |-> changes',
                                        history |-> history']]

\* __setitem__: the entry of _changes
Set1(t) ==
    /\ calls[t].pc = "set1"
    /\ changes' = SetChanges(changes, data, calls[t].key, calls[t].value)
    /\ UNCHANGED <<lock, data, history>>
    /\ Moved(t, "set2", << >>)

\* __setitem__: super().__setitem__(key, value)
Set2(t) ==
    /\ calls[t].pc = "set2"
    /\ data' = DataSet(data, calls[t].key, calls[t].value)
    /\ UNCHANGED <<lock, changes, history>>
    /\ Moved(t, "release", << >>)

\* __delitem__: the entry of _changes; self.data[key] raises for a key that is
\* neither in _changes nor in data
Del1(t) ==
    /\ calls[t].pc = "del1"
    /\ UNCHANGED <<lock, data, history>>
    /\ IF ~Has(changes, calls[t].key) /\ calls[t].key \notin DOMAIN data
         THEN /\ UNCHANGED changes
              /\ Moved(t, "release", << >>)
         ELSE /\ changes' = DelChanges(changes, data, calls[t].key)
              /\ Moved(t, "del2", << >>)

\* __delitem__: super().__delitem__(key), KeyError for a key not in data
Del2(t) ==
    /\ calls[t].pc = "del2"
    /\ data' = IF calls[t].key \in DOMAIN data THEN DataDel(data, calls[t].key) ELSE data
    /\ UNCHANGED <<lock, changes, history>>
    /\ Moved(t, "release", << >>)

\* commit: self._history.append(self._changes)
Commit1(t) ==
    /\ calls[t].pc = "commit1"
    /\ history' = DequeAppend(history, changes, max_history)
    /\ UNCHANGED <<lock, data, changes>>
    /\ Moved(t, "commit2", << >>)

\* commit: self._changes = {}
Commit2(t) ==
    /\ calls[t].pc = "commit2"
    /\ changes' = EmptyDict
    /\ UNCHANGED <<lock, data, history>>
    /\ Moved(t, "release", << >>)

\* rollback: the history check, then changes = self._changes; self._changes = {}
Rollback1(t) ==
    /\ calls[t].pc = "rollback1"
    /\ UNCHANGED <<lock, data, history>>
    /\ IF Len(history) = 0
         THEN /\ changes' = EmptyHistoryChanges(changes)
              /\ Moved(t, "release", << >>)
         ELSE /\ changes' = EmptyDict
              /\ Moved(t, "rollback2", changes)

\* rollback: changes |= self._history.pop()
Rollback2(t) ==
    /\ calls[t].pc = "rollback2"
    /\ history' = Front(history)
    /\ UNCHANGED <<lock, data, changes>>
    /\ Moved(t, "undo", Update(calls[t].local, Last(history)))

\* revert: changes = self._changes; self._changes = {}
Revert1(t) ==
    /\ calls[t].pc = "revert1"
    /\ changes' = EmptyDict
    /\ UNCHANGED <<lock, data, history>>
    /\ Moved(t, "undo", changes)

\* _undo_changes: one round of the loop, or its end; KeyError ends the call
Undo(t) ==
    /\ calls[t].pc = "undo"
    /\ UNCHANGED <<lock, changes, history>>
    /\ LET ch == calls[t].local
       IN  IF ch = << >>
             THEN /\ UNCHANGED data
                  /\ Moved(t, "release", << >>)
           ELSE IF Head(ch).v = KEY_CREATED
             THEN IF Head(ch).k \in DOMAIN data
                    THEN /\ data' = DataDel(data, Head(ch).k)
                         /\ Moved(t, "undo", Tail(ch))
                    ELSE /\ UNCHANGED data
                         /\ Moved(t, "release", << >>)
           ELSE /\ data' = DataSet(data, Head(ch).k, Head(ch).v)
                /\ Moved(t, "undo", Tail(ch))

\* the end of the with block: the lock is released, the call returns
Release(t) ==
    /\ calls[t].pc = "release"
    /\ lock' = "free"
    /\ calls' = [calls EXCEPT ![t] = NoCall]
    /\ UNCHANGED <<data, changes, history>>

\* a step of a thread leaves the mirror and the history variables of the dict
\* alone
CallThread(A) ==
    /\ A
    /\ UNCHANGED <<max_history, ret, restored, txStart, prevStart, base, bases, rbRun, ncommit>>
    /\ UNCHANGED mvars

NextLock ==
    \E t \in Threads :
        \/ \E key \in Keys, value \in LockValues : CallThread(Enter(t, "set", key, value))
        \/ \E key \in Keys : CallThread(Enter(t, "del", key, ""))
        \/ \E op \in {"commit", "rollback", "revert"} : CallThread(Enter(t, op, "", ""))
        \/ CallThread(Acquire(t))
        \/ CallThread(Set1(t))
        \/ CallThread(Set2(t))
        \/ CallThread(Del1(t))
        \/ CallThread(Del2(t))
        \/ CallThread(Commit1(t))
        \/ CallThread(Commit2(t))
        \/ CallThread(Rollback1(t))
        \/ CallThread(Rollback2(t))
        \/ CallThread(Revert1(t))
        \/ CallThread(Undo(t))
        \/ CallThread(Release(t))

\* a store that keeps one committed diff, so that commit() drops the older one
LockHistories == {1}

InitLock == Init /\ max_history \in LockHistories

SpecLock == InitLock /\ [][NextLock]_vars

\* the store a whole call leaves when it runs alone on the store s
Atomic(c, s) ==
    IF c.op = "set"
      THEN [s EXCEPT !.changes = SetChanges(s.changes, s.data, c.key, c.value),
                     !.data = DataSet(s.data, c.key, c.value)]
    ELSE IF c.op = "del"
      THEN IF ~Has(s.changes, c.key) /\ c.key \notin DOMAIN s.data THEN s
           ELSE [s EXCEPT !.changes = DelChanges(s.changes, s.data, c.key),
                          !.data = IF c.key \in DOMAIN s.data THEN DataDel(s.data, c.key)
                                                               ELSE s.data]
    ELSE IF c.op = "commit"
      THEN [s EXCEPT !.history = DequeAppend(s.history, s.changes, max_history),
                     !.changes = EmptyDict]
    ELSE IF c.op = "rollback"
      THEN IF Len(s.history) = 0 THEN [s EXCEPT !.changes = EmptyHistoryChanges(s.changes)]
           ELSE [data |-> UndoChanges(s.data, RollbackChanges(s.changes, s.history)).data,
                 changes |-> EmptyDict,
                 history |-> Front(s.history)]
    ELSE [s EXCEPT !.data = UndoChanges(s.data, s.changes).data, !.changes = EmptyDict]

\* C18: the calls of several threads run one at a time under the lock: at most
\* one thread is between acquire and release, the store it reads at every step
\* is the store as it left it at its step before (as it found it at acquire),
\* and when it comes to release the lock the store is what its whole call, run
\* alone, makes of the store it found.
C18_CallsAtomic ==
    /\ Cardinality({t \in Threads : calls[t].pc \in Inside}) <= 1
    /\ \A t \in Threads :
         /\ calls[t].pc \in Inside => lock = t /\ Store = calls[t].seen
         /\ calls[t].pc = "release" => Store = Atomic(calls[t], calls[t].pre)

\* a thread is about to release the lock after a rollback that undid entries,
\* while the other thread waits for the lock with a call of its own
C18_Witness ==
    \E t \in Threads, u \in Threads :
        /\ calls[t].pc = "release" /\ calls[t].op = "rollback"
        /\ calls[t].pre.data # data
        /\ calls[u].pc = "acquire"

\* C21 as stated: the names flushed from frozen_updates form a batch of their
\* own: the round that flushes them holds no other name from a message
\* delivered after the unfreeze.
C21_FlushAlone == gh.flushed # {} => gh.tookLate \subseteq gh.flushed

\* C21: no batch is fetched while names are kept in frozen_updates, and the
\* round that flushes them takes all of them into its one batch, together with
\* the names of the messages it has taken.
C21_FlushFirst ==
    [][/\ Fetches => w.frozen_updates = {} /\ gh.flushed \subseteq w.changed
       /\ Flushing => w'.changed = w.frozen_updates \cup w.changed]_vars

\* the worker is about to fetch a batch that holds the names it flushed from
\* frozen_updates and another name, of a message delivered after the unfreeze
C21_Witness ==
    /\ w.pc = "fetch"
    /\ gh.flushed # {} /\ gh.tookLate \ gh.flushed # {}
    /\ w.changed = gh.flushed \cup gh.tookLate

\* the initial update is the first call of the observer, is sent at most once,
\* carries the whole local fields map with all its names and, for a hash
\* subscribed frozen, is sent only after an unfreeze
InitialFirst ==
    /\ InvokesInitial =>
         /\ gh.initials = 0 /\ ~gh.deltaFirst /\ ~gh.coldStart
         /\ obs' = Invoked(hash_data.fields, DOMAIN hash_data.fields)
    /\ InvokesDelta => w.updated_initial

CreatedIsNew(ch, dat) ==
    \A i \in 1 .. Len(ch) :
        ch[i].v = KEY_CREATED => ch[i].k \notin DOMAIN txStart /\ ch[i].k \in DOMAIN dat

\* del vd[key] of a key the open diff marks KEY_CREATED takes the key out of
\* the open diff and leaves history as it is
DeleteDiscardsCreated ==
    \A key \in Keys :
        /\ ret'.op = "del" /\ ret'.err = "none" /\ key \notin DOMAIN data'
        /\ Has(changes, key) /\ Get(changes, key) = KEY_CREATED
        => ~Has(changes', key) /\ history' = history

\* C23: in every state of a store, one built by from_obj included, a key the
\* open diff marks KEY_CREATED was not in data at the start of the open
\* transaction and is in data now; deleting such a key takes it out of the open
\* diff and leaves history as it is.
C23_CreatedIsNew ==
    /\ [](CreatedIsNew(changes, data))
    /\ [](restored.valid => CreatedIsNew(restored.changes, restored.data))
    /\ [][DeleteDiscardsCreated]_vars

====
